---- MODULE Spec2Model ----
(***************************************************************************)
(* Model of BotState (src/state.rs): the role-sync service of the Globed   *)
(* auto-role bot.  The store (tables roles and linked_users), the async    *)
(* entry points sync_roles and handle_unlink (one action per segment       *)
(* between two awaits), the shared helper _send_sync_roles_req, and the    *)
(* mapping CRUD operations.                                                *)
(*                                                                         *)
(* Spec has one task in the entry points while the mapping table is        *)
(* administered and the store may fail; SpecRace has two tasks racing in   *)
(* the entry points over the linked_users table.                           *)
(*                                                                         *)
(* Fixed-width integers are sequences of 16-bit limbs, least significant   *)
(* first, whose top limb is signed for a signed type:                      *)
(*   u64 = <<l0, l1, l2, l3>>   value = l0 + l1*2^16 + l2*2^32 + l3*2^48   *)
(*   i64 = <<l0, l1, l2, h3>>   h3 \in -2^15 .. 2^15-1                     *)
(*   i32 = <<l0, h1>>           h1 \in -2^15 .. 2^15-1                     *)
(* so that two values of one type are equal as integers exactly when the   *)
(* sequences are equal, and every cast is computed on the limbs.           *)
(***************************************************************************)
EXTENDS Integers, Sequences, FiniteSets, TLC

\* ------------------------------------------------------------------ bounds

\* Number of local (globed) role identifiers that may be mapped.
NumLocalIds == 2

\* ------------------------------------------------------- fixed-width integers

LimbBase == 2^16
HalfLimb == 2^15

\* The value of a limb read as a signed 16-bit number.
SignedLimb(l) == IF l >= HalfLimb THEN l - LimbBase ELSE l

\* `x as i64` for x: u64 (two's-complement reinterpretation).
AsI64(u) == <<u[1], u[2], u[3], SignedLimb(u[4])>>

\* `x as i32` for x: i64 (the low 32 bits, reinterpreted).
AsI32(x) == <<x[1], SignedLimb(x[2])>>

\* ------------------------------------------------------------------ inputs

\* The tasks that call sync_roles / handle_unlink.
Procs == {"task1", "task2"}
FirstTask == "task1"

\* Local role identifiers (roles.id, TEXT).
LocalIdSamples == <<"A", "B", "C", "D">>
LocalIds == {LocalIdSamples[i] : i \in 1..NumLocalIds}

\* Chat-platform role identifiers (serenity RoleId, u64): 100 and 2^63 + 200.
RoleIds == { <<100, 0, 0, 0>>, <<200, 0, 0, 32768>> }

\* The values add_role / remove_role receive as role_id: i64.
DiscordIds == {AsI64(r) : r \in RoleIds}

\* Chat-platform member identifiers (serenity UserId, u64): 1 and 2^63 + 2.
UserIds == { <<1, 0, 0, 0>>, <<2, 0, 0, 32768>> }

\* Remote account identifiers (linked_users.gd_account_id, i64): 42 and 2^32 + 42.
AccountIds == { <<42, 0, 0, 0>>, <<42, 0, 1, 0>> }

\* A Member: its identifier and the role identifiers it currently holds.
Members == [id : UserIds, roles : SUBSET RoleIds]

\* HTTP status codes the remote server may answer with.
Statuses == {199, 200, 299, 500}

\* The outcomes of response.text().await: the body text, or an error.
TextOk(text) == [kind |-> "Ok", text |-> text]
TextErr == [kind |-> "Err"]
Bodies == {TextOk("boom"), TextErr}

\* ------------------------------------------------------------------ values

None == [none |-> TRUE]

\* Result<(), RoleSyncError> and Result<(), sqlx::Error>.
Ok == [kind |-> "Ok"]
NotLinked == [kind |-> "NotLinked"]
Database(e) == [kind |-> "Database", err |-> e]
ServerRequest == [kind |-> "ServerRequest"]
\* Returned only when serde_json::to_string fails, which it cannot for
\* RoleSyncRequestData (an integer and two vectors of strings).
InternalError == [kind |-> "InternalError"]
ServerUpdate(status, message) == [kind |-> "ServerUpdate", status |-> status, message |-> message]

\* sqlx::Error values the store can produce.
RowNotFound == "RowNotFound"
UniqueViolation == "UniqueViolation"
Io == "Io"
SqlxErr(e) == [kind |-> "SqlxErr", err |-> e]

\* Mutant of From: the RowNotFound arm left out.
FromWithoutNotLinked(value) == Database(value)

\* impl From<sqlx::Error> for RoleSyncError.
From(value) == IF value = RowNotFound THEN NotLinked ELSE Database(value)

RoleSyncRequestData(account_id, keep, remove) ==
    [account_id |-> account_id, keep |-> keep, remove |-> remove]

\* ------------------------------------------------------------------ state

VARIABLES
    roles,          \* table roles: set of [id, discord_id]
    linked_users,   \* table linked_users: set of [id, gd_account_id]
    store_ok,       \* whether the store currently answers queries
    pc,             \* per task: position in sync_roles / handle_unlink
    op,             \* per task: the entry point it is in, or was in last
    user,           \* per task: the Member passed in
    linked_user,    \* per task: local linked_user
    db_roles,       \* per task: local db_roles
    data,           \* per task: local data (RoleSyncRequestData)
    wire,           \* per task: body of the request put on the wire
    nreq,           \* per task: requests issued by the current invocation
    reply,          \* per task: what the remote side answered
    result,         \* per task: value returned by the invocation
    crud_result     \* value returned by the last mapping CRUD call

vars == <<roles, linked_users, store_ok, pc, op, user, linked_user, db_roles,
          data, wire, nreq, reply, result, crud_result>>

procVars == <<pc, op, user, linked_user, db_roles, data, wire, nreq, reply, result>>

\* ------------------------------------------------------------------ store

\* The set of elements of a sequence.
Range(seq) == {seq[i] : i \in DOMAIN seq}

\* All orders in which a SELECT without ORDER BY may return the rows of a table.
Enumerations(table) ==
    {f \in [1..Cardinality(table) -> table] : \A i, j \in DOMAIN f : f[i] = f[j] => i = j}

\* "SELECT * FROM linked_users WHERE id = ?": the matching rows.
SelectLinkedUser(table, user_id) == {row \in table : row.id = user_id}

\* Mutant of DeleteLinkedUser: a DELETE whose condition matches no row.
DeleteNoLinkedUser(table, user_id) == {row \in table : row.id # user_id \/ row.id = user_id}

\* "DELETE FROM linked_users WHERE id = ?".
DeleteLinkedUser(table, user_id) == {row \in table : row.id # user_id}

\* roles(id TEXT PRIMARY KEY, discord_id INTEGER UNIQUE): whether the table
\* accepts a new row.
RolesAccepts(table, row) ==
    \A r \in table : r.id # row.id /\ r.discord_id # row.discord_id

\* "INSERT INTO roles (id, discord_id) VALUES (?, ?)" binding globed_role_id, role_id.
InsertRole(table, globed_role_id, role_id) ==
    table \cup {[id |-> globed_role_id, discord_id |-> role_id]}

\* Mutant of DeleteRoleByDiscordId: the WHERE clause left out.
DeleteEveryRole(table, role_id) == {r \in table : FALSE}

\* "DELETE FROM roles WHERE discord_id = ?".
DeleteRoleByDiscordId(table, role_id) == {r \in table : r.discord_id # role_id}

\* "DELETE FROM roles WHERE id = ?".
DeleteRoleById(table, role) == {r \in table : r.id # role}

\* get_all_roles: "SELECT * FROM roles", the possible results.
get_all_roles(table) == Enumerations(table)

\* ------------------------------------------------------------- pure helpers

\* user.roles.iter().any(|id| id.get() as i64 == role.discord_id)
HasRole(member_roles, discord_id) == \E id \in member_roles : AsI64(id) = discord_id

\* Mutant of Kept: the two branches of the loop swapped.
RECURSIVE KeptSwapped(_, _)
KeptSwapped(rows, member_roles) ==
    IF rows = <<>> THEN <<>>
    ELSE (IF HasRole(member_roles, Head(rows).discord_id) THEN <<>> ELSE <<Head(rows).id>>)
         \o KeptSwapped(Tail(rows), member_roles)

\* The loop of sync_roles over db_roles: the vector kept.
RECURSIVE Kept(_, _)
Kept(rows, member_roles) ==
    IF rows = <<>> THEN <<>>
    ELSE (IF HasRole(member_roles, Head(rows).discord_id) THEN <<Head(rows).id>> ELSE <<>>)
         \o Kept(Tail(rows), member_roles)

\* Mutant of Removed: the push to removed placed after the if/else, not in
\* its else branch.
RECURSIVE RemovedAlways(_, _)
RemovedAlways(rows, member_roles) ==
    IF rows = <<>> THEN <<>>
    ELSE <<Head(rows).id>> \o RemovedAlways(Tail(rows), member_roles)

\* The loop of sync_roles over db_roles: the vector removed.
RECURSIVE Removed(_, _)
Removed(rows, member_roles) ==
    IF rows = <<>> THEN <<>>
    ELSE (IF HasRole(member_roles, Head(rows).discord_id) THEN <<>> ELSE <<Head(rows).id>>)
         \o Removed(Tail(rows), member_roles)

\* The loop of handle_unlink over db_roles: the vector removed.
RECURSIVE UnlinkRemoved(_)
UnlinkRemoved(rows) ==
    IF rows = <<>> THEN <<>> ELSE <<Head(rows).id>> \o UnlinkRemoved(Tail(rows))

\* serde_json::to_string(data): the JSON object, as its fields in order.
to_string(d) == <<"account_id", d.account_id, "keep", d.keep, "remove", d.remove>>

\* Mutant of is_success: only 200 counts as success.
is_ok_only(status) == status = 200

\* StatusCode::is_success.
is_success(status) == 200 <= status /\ status <= 299

\* response.text().await.unwrap_or_else(|_| "<no message>".to_owned())
MessageOf(body) == IF body = TextErr THEN "<no message>" ELSE body.text

\* ------------------------------------------------------------------- init

\* linked_users(id INTEGER PRIMARY KEY, gd_account_id INTEGER): the tables the
\* external linking flow may have left.
LinkedUsersTables ==
    {t \in SUBSET [id : {AsI64(u) : u \in UserIds}, gd_account_id : AccountIds] :
        \A r1, r2 \in t : r1.id = r2.id => r1 = r2}

\* BotState::new: the store is handed in; no caller is inside an entry point.
Init ==
    /\ roles = {}
    /\ linked_users \in LinkedUsersTables
    /\ store_ok = TRUE
    /\ pc = [p \in Procs |-> "idle"]
    /\ op = [p \in Procs |-> "none"]
    /\ user = [p \in Procs |-> None]
    /\ linked_user = [p \in Procs |-> None]
    /\ db_roles = [p \in Procs |-> <<>>]
    /\ data = [p \in Procs |-> None]
    /\ wire = [p \in Procs |-> <<>>]
    /\ nreq = [p \in Procs |-> 0]
    /\ reply = [p \in Procs |-> None]
    /\ result = [p \in Procs |-> None]
    /\ crud_result = None

\* ------------------------------------------------------ returning to the caller

\* The invocation of task p returns r: its parameter and locals are dropped.
Return(p, r) ==
    /\ pc' = [pc EXCEPT ![p] = "done"]
    /\ result' = [result EXCEPT ![p] = r]
    /\ user' = [user EXCEPT ![p] = None]
    /\ linked_user' = [linked_user EXCEPT ![p] = None]
    /\ db_roles' = [db_roles EXCEPT ![p] = <<>>]
    /\ data' = [data EXCEPT ![p] = None]
    /\ wire' = [wire EXCEPT ![p] = <<>>]

\* The first query of both entry points,
\* fetch_one("SELECT * FROM linked_users WHERE id = ?", user.user.id.get() as i64),
\* followed by `?`: task p enters entry point name with member.
LookupLinkedUser(p, name, member) ==
    /\ pc[p] \in {"idle", "done"}
    /\ op' = [op EXCEPT ![p] = name]
    /\ nreq' = [nreq EXCEPT ![p] = 0]
    /\ reply' = [reply EXCEPT ![p] = None]
    /\ IF ~store_ok
       THEN Return(p, From(Io))
       ELSE IF SelectLinkedUser(linked_users, AsI64(member.id)) = {}
       THEN Return(p, From(RowNotFound))
       ELSE /\ pc' = [pc EXCEPT ![p] = "fetch_roles"]
            /\ user' = [user EXCEPT ![p] = member]
            /\ linked_user' = [linked_user EXCEPT ![p] =
                   CHOOSE row \in SelectLinkedUser(linked_users, AsI64(member.id)) : TRUE]
            /\ result' = [result EXCEPT ![p] = None]
            /\ UNCHANGED <<db_roles, data, wire>>
    /\ UNCHANGED <<roles, linked_users, store_ok, crud_result>>

\* ------------------------------------------------------ _send_sync_roles_req

\* _send_sync_roles_req up to `.send().await`: the body is serialized and the
\* POST is issued.
SendSyncRolesReq(p, d) ==
    /\ data' = [data EXCEPT ![p] = d]
    /\ wire' = [wire EXCEPT ![p] = to_string(d)]
    /\ nreq' = [nreq EXCEPT ![p] = @ + 1]
    /\ pc' = [pc EXCEPT ![p] = "await_response"]
    /\ UNCHANGED <<op, user, linked_user, db_roles, reply, result>>
    /\ UNCHANGED <<roles, linked_users, store_ok, crud_result>>

\* Mutant of send_failed: the request is sent again after a transport failure.
send_failed_retry(p) ==
    /\ pc[p] = "await_response"
    /\ pc' = [pc EXCEPT ![p] = "send"]
    /\ UNCHANGED <<op, user, linked_user, db_roles, data, wire, nreq, reply, result>>
    /\ UNCHANGED <<roles, linked_users, store_ok, crud_result>>

\* `.send().await` ends in Err(e): return Err(ServerRequest(e)).
send_failed(p) ==
    /\ pc[p] = "await_response"
    /\ reply' = [reply EXCEPT ![p] = [kind |-> "TransportError"]]
    /\ Return(p, ServerRequest)
    /\ UNCHANGED <<op, nreq>>
    /\ UNCHANGED <<roles, linked_users, store_ok, crud_result>>

\* `.send().await` ends in Ok(resp): a 2xx status returns Ok(()), any other
\* status goes on to read the body.
send_responded(p, status) ==
    /\ pc[p] = "await_response"
    /\ reply' = [reply EXCEPT ![p] = [kind |-> "Response", status |-> status, body |-> None]]
    /\ IF is_success(status)
       THEN Return(p, Ok)
       ELSE /\ pc' = [pc EXCEPT ![p] = "await_text"]
            /\ UNCHANGED <<user, result, linked_user, db_roles, data, wire>>
    /\ UNCHANGED <<op, nreq>>
    /\ UNCHANGED <<roles, linked_users, store_ok, crud_result>>

\* `response.text().await` ends (body read, or not):
\* return Err(ServerUpdate((status, message))).
text_read(p, body) ==
    /\ pc[p] = "await_text"
    /\ reply' = [reply EXCEPT ![p].body = body]
    /\ Return(p, ServerUpdate(reply[p].status, MessageOf(body)))
    /\ UNCHANGED <<op, nreq>>
    /\ UNCHANGED <<roles, linked_users, store_ok, crud_result>>

\* ---------------------------------------------------------------- sync_roles

\* sync_roles, the linked_users query.
sync_roles_lookup(p, member) == LookupLinkedUser(p, "sync_roles", member)

\* sync_roles, `self.get_all_roles().await?`.
sync_roles_fetch(p) ==
    /\ pc[p] = "fetch_roles"
    /\ op[p] = "sync_roles"
    /\ IF ~store_ok
       THEN Return(p, From(Io))
       ELSE /\ \E rows \in get_all_roles(roles) : db_roles' = [db_roles EXCEPT ![p] = rows]
            /\ pc' = [pc EXCEPT ![p] = "send"]
            /\ UNCHANGED <<user, result, linked_user, data, wire>>
    /\ UNCHANGED <<op, nreq, reply>>
    /\ UNCHANGED <<roles, linked_users, store_ok, crud_result>>

\* The request sync_roles builds from its locals.
SyncRolesData(linked, rows, member) ==
    RoleSyncRequestData(AsI32(linked.gd_account_id),
                        Kept(rows, member.roles),
                        Removed(rows, member.roles))

\* Mutant of sync_roles_send: the link row is deleted as in handle_unlink.
sync_roles_send_unlinking(p) ==
    /\ pc[p] = "send"
    /\ op[p] = "sync_roles"
    /\ data' = [data EXCEPT ![p] = SyncRolesData(linked_user[p], db_roles[p], user[p])]
    /\ wire' = [wire EXCEPT ![p] = to_string(SyncRolesData(linked_user[p], db_roles[p], user[p]))]
    /\ nreq' = [nreq EXCEPT ![p] = @ + 1]
    /\ pc' = [pc EXCEPT ![p] = "await_response"]
    /\ linked_users' = DeleteLinkedUser(linked_users, AsI64(user[p].id))
    /\ UNCHANGED <<op, user, linked_user, db_roles, reply, result>>
    /\ UNCHANGED <<roles, store_ok, crud_result>>

\* sync_roles, from the partition loop to `.send().await`.
sync_roles_send(p) ==
    /\ pc[p] = "send"
    /\ op[p] = "sync_roles"
    /\ SendSyncRolesReq(p, SyncRolesData(linked_user[p], db_roles[p], user[p]))

\* ------------------------------------------------------------- handle_unlink

\* handle_unlink, the linked_users query.
handle_unlink_lookup(p, member) == LookupLinkedUser(p, "handle_unlink", member)

\* handle_unlink, fetch_all("SELECT * FROM roles").
handle_unlink_fetch(p) ==
    /\ pc[p] = "fetch_roles"
    /\ op[p] = "handle_unlink"
    /\ IF ~store_ok
       THEN Return(p, From(Io))
       ELSE /\ \E rows \in Enumerations(roles) : db_roles' = [db_roles EXCEPT ![p] = rows]
            /\ pc' = [pc EXCEPT ![p] = "delete"]
            /\ UNCHANGED <<user, result, linked_user, data, wire>>
    /\ UNCHANGED <<op, nreq, reply>>
    /\ UNCHANGED <<roles, linked_users, store_ok, crud_result>>

\* handle_unlink, execute("DELETE FROM linked_users WHERE id = ?", user_id).
handle_unlink_delete(p) ==
    /\ pc[p] = "delete"
    /\ IF ~store_ok
       THEN /\ Return(p, From(Io))
            /\ UNCHANGED linked_users
       ELSE /\ linked_users' = DeleteLinkedUser(linked_users, AsI64(user[p].id))
            /\ pc' = [pc EXCEPT ![p] = "send"]
            /\ UNCHANGED <<user, result, linked_user, db_roles, data, wire>>
    /\ UNCHANGED <<op, nreq, reply>>
    /\ UNCHANGED <<roles, store_ok, crud_result>>

\* Mutant of UnlinkData: the vectors given to the wrong fields.
UnlinkDataSwapped(linked, rows) ==
    RoleSyncRequestData(AsI32(linked.gd_account_id), UnlinkRemoved(rows), <<>>)

\* The request handle_unlink builds from its locals.
UnlinkData(linked, rows) ==
    RoleSyncRequestData(AsI32(linked.gd_account_id), <<>>, UnlinkRemoved(rows))

\* handle_unlink, from the loop over db_roles to `.send().await`.
handle_unlink_send(p) ==
    /\ pc[p] = "send"
    /\ op[p] = "handle_unlink"
    /\ SendSyncRolesReq(p, UnlinkData(linked_user[p], db_roles[p]))

\* --------------------------------------------------------------- mapping CRUD

\* add_role(role_id, globed_role_id).
add_role(role_id, globed_role_id) ==
    /\ IF ~store_ok
       THEN /\ crud_result' = SqlxErr(Io)
            /\ UNCHANGED roles
       ELSE IF ~RolesAccepts(roles, [id |-> globed_role_id, discord_id |-> role_id])
       THEN /\ crud_result' = SqlxErr(UniqueViolation)
            /\ UNCHANGED roles
       ELSE /\ crud_result' = Ok
            /\ roles' = InsertRole(roles, globed_role_id, role_id)
    /\ UNCHANGED <<linked_users, store_ok>>
    /\ UNCHANGED procVars

\* remove_role(role_id).
remove_role(role_id) ==
    /\ IF ~store_ok
       THEN /\ crud_result' = SqlxErr(Io)
            /\ UNCHANGED roles
       ELSE /\ crud_result' = Ok
            /\ roles' = DeleteRoleByDiscordId(roles, role_id)
    /\ UNCHANGED <<linked_users, store_ok>>
    /\ UNCHANGED procVars

\* remove_role_by_globed_id(role).
remove_role_by_globed_id(role) ==
    /\ IF ~store_ok
       THEN /\ crud_result' = SqlxErr(Io)
            /\ UNCHANGED roles
       ELSE /\ crud_result' = Ok
            /\ roles' = DeleteRoleById(roles, role)
    /\ UNCHANGED <<linked_users, store_ok>>
    /\ UNCHANGED procVars

\* ---------------------------------------------------------------- environment

\* The store stops answering queries (pool closed, I/O error).
store_fails ==
    /\ store_ok
    /\ store_ok' = FALSE
    /\ UNCHANGED <<roles, linked_users, crud_result>>
    /\ UNCHANGED procVars

\* The store answers again.
store_recovers ==
    /\ ~store_ok
    /\ store_ok' = TRUE
    /\ UNCHANGED <<roles, linked_users, crud_result>>
    /\ UNCHANGED procVars

\* ---------------------------------------------------------------------- spec

\* One task calling the entry points while the mapping table is administered.
Next ==
    \/ \E member \in Members : sync_roles_lookup(FirstTask, member)
    \/ sync_roles_fetch(FirstTask)
    \/ sync_roles_send(FirstTask)
    \/ \E member \in Members : handle_unlink_lookup(FirstTask, member)
    \/ handle_unlink_fetch(FirstTask)
    \/ handle_unlink_delete(FirstTask)
    \/ handle_unlink_send(FirstTask)
    \/ send_failed(FirstTask)
    \/ \E status \in Statuses : send_responded(FirstTask, status)
    \/ \E body \in Bodies : text_read(FirstTask, body)
    \/ \E role_id \in DiscordIds, globed_role_id \in LocalIds : add_role(role_id, globed_role_id)
    \/ \E role_id \in DiscordIds : remove_role(role_id)
    \/ \E role \in LocalIds : remove_role_by_globed_id(role)
    \/ store_fails
    \/ store_recovers

Spec == Init /\ [][Next]_vars

\* Concurrent tasks calling the entry points, the mapping table left alone.
NextRace ==
    \/ \E p \in Procs, member \in Members : sync_roles_lookup(p, member)
    \/ \E p \in Procs : sync_roles_fetch(p)
    \/ \E p \in Procs : sync_roles_send(p)
    \/ \E p \in Procs, member \in Members : handle_unlink_lookup(p, member)
    \/ \E p \in Procs : handle_unlink_fetch(p)
    \/ \E p \in Procs : handle_unlink_delete(p)
    \/ \E p \in Procs : handle_unlink_send(p)
    \/ \E p \in Procs : send_failed(p)
    \/ \E p \in Procs, status \in Statuses : send_responded(p, status)
    \/ \E p \in Procs, body \in Bodies : text_read(p, body)
    \/ store_fails
    \/ store_recovers

SpecRace == Init /\ [][NextRace]_vars

\* -------------------------------------------------------------------- claims

\* Task p has issued its request and has not returned yet.
InFlight(p) == pc[p] \in {"await_response", "await_text"}

\* The local role identifiers of a sequence of mapping rows.
LocalIdsOf(rows) == {rows[i].id : i \in DOMAIN rows}

\* C3. Partition totality: in the request built by sync_roles, keep and remove
\* together hold exactly the local identifiers of the mapping rows that were
\* loaded, each of them once, and no identifier is in both.
C3_PartitionTotality ==
    \A p \in Procs :
        (op[p] = "sync_roles" /\ InFlight(p)) =>
            /\ Range(data[p].keep) \cup Range(data[p].remove) = LocalIdsOf(db_roles[p])
            /\ Range(data[p].keep) \cap Range(data[p].remove) = {}
            /\ Len(data[p].keep) + Len(data[p].remove) = Len(db_roles[p])
            /\ wire[p] = to_string(data[p])

\* A sync_roles request in flight with an identifier to keep and one to remove.
C3_Witness ==
    \E p \in Procs :
        /\ op[p] = "sync_roles" /\ InFlight(p)
        /\ data[p].keep # <<>> /\ data[p].remove # <<>>

\* C4. Partition correctness: in the request built by sync_roles, the local_id
\* of a loaded mapping row is in keep exactly when the member holds a role whose
\* identifier, as the store's 64-bit integer, is the row's discord_id; otherwise
\* it is in remove.
C4_PartitionCorrectness ==
    \A p \in Procs :
        (op[p] = "sync_roles" /\ InFlight(p)) =>
            \A i \in DOMAIN db_roles[p] :
                LET row == db_roles[p][i]
                    held == \E m \in user[p].roles : AsI64(m) = row.discord_id
                IN  /\ row.id \in Range(data[p].keep) <=> held
                    /\ row.id \in Range(data[p].remove) <=> ~held

\* A sync_roles request in flight for a member that holds the role of one loaded
\* row (one whose identifier is above 2^63) and lacks the role of another.
C4_Witness ==
    \E p \in Procs :
        /\ op[p] = "sync_roles" /\ InFlight(p)
        /\ \E i, j \in DOMAIN db_roles[p] :
              /\ db_roles[p][i].discord_id[4] < 0
              /\ db_roles[p][i].id \in Range(data[p].keep)
              /\ db_roles[p][j].id \in Range(data[p].remove)

\* The i64 with the value of an i32 (sign extension), to compare the two as
\* integers.
WidenI32(a) ==
    IF a[2] < 0 THEN <<a[1], a[2] + LimbBase, LimbBase - 1, -1>>
                ELSE <<a[1], a[2], 0, 0>>

\* C10. The account_id of the request in flight is, as an integer, the
\* gd_account_id of the linked_users row the invocation read.
C10_AccountIdPreserved ==
    \A p \in Procs :
        InFlight(p) => WidenI32(data[p].account_id) = linked_user[p].gd_account_id

\* C1. Unlink commits locally even on remote failure: once handle_unlink has
\* passed its DELETE, the member has no linked_users row, and no request has
\* been issued before that; an invocation whose request does not end in Ok
\* returns ServerRequest or ServerUpdate, and the row is still absent then.
C1_UnlinkCommitsLocally ==
    /\ [](\A p \in Procs :
            (op[p] = "handle_unlink" /\ pc[p] \in {"send", "await_response", "await_text"}) =>
                /\ SelectLinkedUser(linked_users, AsI64(user[p].id)) = {}
                /\ pc[p] = "send" => nreq[p] = 0)
    /\ [][\A p \in Procs :
            (/\ op[p] = "handle_unlink" /\ InFlight(p)
             /\ pc'[p] = "done"
             /\ result'[p] # Ok) =>
                /\ result'[p].kind \in {"ServerRequest", "ServerUpdate"}
                /\ SelectLinkedUser(linked_users', AsI64(user[p].id)) = {}]_vars

\* handle_unlink has returned a transport failure and the table that held the
\* member's row is empty.
C1_Witness ==
    \E p \in Procs :
        /\ op[p] = "handle_unlink" /\ pc[p] = "done"
        /\ result[p] = ServerRequest
        /\ linked_users = {}

\* C2. Not-linked precondition: a lookup that the store answers with no row
\* makes either entry point return NotLinked at once, with no request issued and
\* both tables as they were.
C2_NotLinked ==
    /\ [](\A p \in Procs : (pc[p] = "done" /\ result[p] = NotLinked) => nreq[p] = 0)
    /\ [][\A p \in Procs :
            (store_ok /\ pc[p] \in {"idle", "done"} /\ crud_result' = crud_result) =>
                \A name \in {"sync_roles", "handle_unlink"}, member \in Members :
                    (/\ op'[p] = name
                     /\ SelectLinkedUser(linked_users, AsI64(member.id)) = {}
                     /\ LookupLinkedUser(p, name, member)) =>
                        /\ pc'[p] = "done"
                        /\ result'[p] = NotLinked
                        /\ nreq'[p] = 0
                        /\ wire'[p] = <<>>
                        /\ roles' = roles
                        /\ linked_users' = linked_users]_vars

\* An entry point has returned NotLinked while both tables hold rows.
C2_Witness ==
    \E p \in Procs :
        /\ pc[p] = "done" /\ result[p] = NotLinked
        /\ roles # {} /\ linked_users # {}

\* C5. Unlink totality: the request of handle_unlink has keep empty and remove
\* holding exactly the local identifiers of the rows it read, which were all the
\* rows of the roles table when it read them.
C5_UnlinkTotality ==
    /\ [](\A p \in Procs :
            (op[p] = "handle_unlink" /\ InFlight(p)) =>
                /\ data[p].keep = <<>>
                /\ Range(data[p].remove) = LocalIdsOf(db_roles[p])
                /\ Len(data[p].remove) = Len(db_roles[p])
                /\ wire[p] = to_string(data[p]))
    /\ [][\A p \in Procs :
            /\ (op[p] = "handle_unlink" /\ pc[p] = "fetch_roles" /\ pc'[p] = "delete") =>
                   (Range(db_roles'[p]) = roles /\ Len(db_roles'[p]) = Cardinality(roles))
            /\ (op[p] = "handle_unlink" /\ pc[p] \in {"delete", "send", "await_response"}
                  /\ pc'[p] # "done") =>
                   db_roles'[p] = db_roles[p]]_vars

\* A handle_unlink request in flight for a member that holds a mapped role,
\* after the roles table has changed since it was read.
C5_Witness ==
    \E p \in Procs :
        /\ op[p] = "handle_unlink" /\ InFlight(p)
        /\ data[p].remove # <<>>
        /\ \E i \in DOMAIN db_roles[p] : HasRole(user[p].roles, db_roles[p][i].discord_id)
        /\ Range(db_roles[p]) # roles

\* C6. Status classification: an invocation that issued its request returns
\* Ok for a 2xx response, ServerUpdate with the status and the body text (or
\* "<no message>" for an unreadable body) for any other response, and
\* ServerRequest when no response came.
C6_StatusClassification ==
    \A p \in Procs :
        (pc[p] = "done" /\ nreq[p] = 1) =>
            \/ /\ reply[p].kind = "Response"
               /\ 200 <= reply[p].status /\ reply[p].status <= 299
               /\ result[p] = Ok
            \/ /\ reply[p].kind = "Response"
               /\ ~(200 <= reply[p].status /\ reply[p].status <= 299)
               /\ result[p] = ServerUpdate(reply[p].status,
                      IF reply[p].body = TextErr THEN "<no message>" ELSE reply[p].body.text)
            \/ /\ reply[p].kind = "TransportError"
               /\ result[p] = ServerRequest

\* An invocation has returned ServerUpdate for a 500 response with body "boom".
C6_Witness ==
    \E p \in Procs :
        /\ pc[p] = "done" /\ nreq[p] = 1
        /\ result[p] = ServerUpdate(500, "boom")

\* What the model holds of task p.
TaskState(p) ==
    <<pc[p], op[p], user[p], linked_user[p], db_roles[p], data[p], wire[p], nreq[p],
      reply[p], result[p]>>

\* C7. sync_roles mutates no persisted state: a step either leaves the roles
\* table and the linked_users table as they were, or is not a step of a
\* sync_roles invocation.
C7_SyncRolesReadOnly ==
    [][\/ roles' = roles /\ linked_users' = linked_users
       \/ \A p \in Procs : ~(op'[p] = "sync_roles" /\ TaskState(p)' # TaskState(p))]_vars

\* sync_roles has returned Ok while both tables hold rows.
C7_Witness ==
    \E p \in Procs :
        /\ op[p] = "sync_roles" /\ pc[p] = "done" /\ result[p] = Ok
        /\ roles # {} /\ linked_users # {}

\* C8. Mapping CRUD idempotence: no two rows ever share a discord_id; a step
\* either returns Ok and leaves the roles table unchanged, or is not a
\* remove_role, answered by the store, of a discord_id without a row; and a
\* step either returns a uniqueness error and leaves the table unchanged, or is
\* not an add_role, answered by the store, of a discord_id that has a row.
C8_CrudIdempotence ==
    /\ [](\A r1, r2 \in roles : r1.discord_id = r2.discord_id => r1 = r2)
    /\ [][\/ crud_result' = Ok /\ roles' = roles
          \/ \A role_id \in DiscordIds :
                ~(/\ store_ok
                  /\ \A r \in roles : r.discord_id # role_id
                  /\ remove_role(role_id))]_vars
    /\ [][\/ crud_result' = SqlxErr(UniqueViolation) /\ roles' = roles
          \/ \A role_id \in DiscordIds, globed_role_id \in LocalIds :
                ~(/\ store_ok
                  /\ \E r \in roles : r.discord_id = role_id
                  /\ add_role(role_id, globed_role_id))]_vars

\* add_role has just been refused for uniqueness on a table that holds a row.
C8_Witness ==
    /\ crud_result = SqlxErr(UniqueViolation)
    /\ roles # {}

\* C9. At most one request per invocation, issued only after the invocation's
\* store operations: none before the send step, none in an invocation that
\* returned NotLinked or a store failure, and exactly one in an invocation that
\* returned Ok, ServerRequest or ServerUpdate.
C9_AtMostOneRequest ==
    \A p \in Procs :
        /\ nreq[p] <= 1
        /\ pc[p] \in {"idle", "fetch_roles", "delete", "send"} => nreq[p] = 0
        /\ InFlight(p) => nreq[p] = 1
        /\ (pc[p] = "done" /\ result[p].kind \in {"NotLinked", "Database"}) => nreq[p] = 0
        /\ (pc[p] = "done" /\ result[p].kind \in {"Ok", "ServerRequest", "ServerUpdate"}) =>
               nreq[p] = 1

\* One task's handle_unlink has returned a store failure without a request,
\* another task's invocation a transport failure after its one request.
C9_Witness ==
    \E p, q \in Procs :
        /\ op[p] = "handle_unlink" /\ pc[p] = "done"
        /\ result[p] = Database(Io) /\ nreq[p] = 0
        /\ pc[q] = "done" /\ result[q] = ServerRequest /\ nreq[q] = 1

====
